---- MODULE Spec2Model ----
(***************************************************************************)
(* A model of the two HTML translators of the repository,                  *)
(* translate_html.py (it -> th) and translate_html_ru.py (-> ru).          *)
(*                                                                         *)
(* A document is a sequence of lexemes.  A lexeme is a short run of        *)
(* characters that the regular expressions of the programs can only        *)
(* consume as a whole: a tag such as "<p>" (it starts with '<' and ends    *)
(* with '>'), the comment markers "<!--" and "-->", a quote character, a   *)
(* space, a word.  A string of the programs (a text node, an attribute     *)
(* value, a translation) is a sequence of lexemes too.  Every regular      *)
(* expression is modelled by the scan it performs on such a sequence:      *)
(* leftmost match first, the next search starting where the match ended.   *)
(***************************************************************************)
EXTENDS Integers, Sequences, FiniteSets, TLC

VARIABLES
    pc,              \* position of the running program
    html,            \* the document read (translate_html.py main, line 174)
    protected_html,  \* make_placeholders' document (line 182)
    placeholders,    \* make_placeholders' dict, in insertion order (line 182)
    all_texts,       \* text_nodes + attr_texts (line 189)
    backend,         \* how the translation backend behaved in batch_translate
    mapping,         \* batch_translate's result (line 195)
    translated,      \* the document being rewritten (lines 198-203)
    fs,              \* the files: path |-> content, for the paths that exist
    out_path,        \* sys.argv[2] of the run, or in_path (line 167)
    runs,            \* how many runs of main were started
    firstInput,      \* the content of the input file when the first run started
    fsBefore,        \* the files when the current run started
    backupWrites,    \* how many times the backup path was written
    aliased,         \* whether a run was given the backup path as its output path
    ru_input,        \* translate_html_ru.py: the document read (line 164)
    content,         \* the document main rewrites (lines 167-184)
    styles,          \* protect_blocks' saved <style> blocks (line 171)
    scripts,         \* protect_blocks' saved <script> blocks (line 172)
    tr,              \* whether BatchTranslator.tr is a translator (lines 46-52)
    cache,           \* BatchTranslator.cache
    pending,         \* BatchTranslator._pending
    sent,            \* every item handed to the backend's translate_batch so far
    before,          \* the document translate_textnodes was called with
    queued,          \* _pending as translate_textnodes' substitution left it
    answers          \* what the backend answered for each item of queued

varsHtml == <<html, protected_html, placeholders, all_texts, backend, mapping, translated>>

varsFs == <<fs, out_path, runs, firstInput, fsBefore, backupWrites, aliased>>

varsRu == <<ru_input, content, styles, scripts, tr, cache, pending, sent, before,
            queued, answers>>

vars == <<pc, varsHtml, varsFs, varsRu>>

----------------------------------------------------------------------------
(* Lexemes and the character classes of the regular expressions.           *)

\* "\s": the white space lexemes
WhiteSpace == {" "}

\* lexemes whose first character is '<'
StartsLT == {"<p>", "<!--", "<script>", "</script>", "<style>", "</style>",
             "<img alt=", "<a title=", "<html lang=", "<p lang=", "<html"}

\* lexemes whose last character is '>'
EndsGT == {"<p>", "-->", "<script>", "</script>", "<style>", "</style>", ">"}

\* "[^<>]" fails on these
HasAngle(x) == x \in StartsLT \cup EndsGT

\* the kinds make_placeholders protects, in the order of its three re.sub
Kinds == <<"COMMENT", "SCRIPT", "STYLE">>

\* f"__PLACEHOLDER_{kind}_{len(placeholders)}__"
Key(kind, n) == "__PLACEHOLDER_" \o kind \o "_" \o ToString(n) \o "__"

\* the largest index a key is looked up with
MaxKey == 8

\* r"__PLACEHOLDER_[A-Z]+_\d+__" matches exactly these lexemes
PlaceholderKeys == {Key(Kinds[k], n) : k \in 1..3, n \in 0..MaxKey}

\* translate_html_ru.py: f"@@{tag.upper()}_{len(saved)-1}@@" and
\* f"@@T_{len(self._pending)}@@"
RuKey(tag, n) == "@@" \o tag \o "_" \o ToString(n) \o "@@"

RuKeys == {RuKey(t, n) : t \in {"STYLE", "SCRIPT", "T"}, n \in 0..MaxKey}

\* lexemes holding a character of [A-Za-z...] (a key holds letters too)
LatinLexemes == {"a", "b", "<p>", "<script>", "</script>", "<style>", "</style>",
                 "<img alt=", "<a title=", "<html lang=", "<p lang=", "<html",
                 " lang=", "it", "it-IT", "th", "en", "ru", "tb", "ts"}
                    \cup PlaceholderKeys \cup RuKeys

\* re.search(r"[A-Za-z...]", text)
HasLatin(text) == \E k \in 1..Len(text) : text[k] \in LatinLexemes

\* len(re.match(r"^\s*", s).group(0))
RECURSIVE NLeading(_)
NLeading(s) ==
    IF s = <<>> \/ Head(s) \notin WhiteSpace THEN 0 ELSE 1 + NLeading(Tail(s))

\* len(re.search(r"\s*$", s).group(0))
RECURSIVE NTrailing(_)
NTrailing(s) ==
    IF s = <<>> \/ s[Len(s)] \notin WhiteSpace THEN 0
    ELSE 1 + NTrailing(SubSeq(s, 1, Len(s) - 1))

leading_ws(s) == SubSeq(s, 1, NLeading(s))

trailing_ws(s) == SubSeq(s, Len(s) - NTrailing(s) + 1, Len(s))

\* original[len(leading_ws):len(original) - len(trailing_ws)]; also s.strip()
Core(s) == SubSeq(s, NLeading(s) + 1, Len(s) - NTrailing(s))

\* placeholder_re.fullmatch(text.strip())
IsPlaceholder(text) == Len(Core(text)) = 1 /\ Core(text)[1] \in PlaceholderKeys

\* first position >= i of doc holding a lexeme of S, Len(doc) + 1 when none
RECURSIVE FirstIn(_, _, _)
FirstIn(doc, i, S) ==
    IF i > Len(doc) THEN Len(doc) + 1
    ELSE IF doc[i] \in S THEN i ELSE FirstIn(doc, i + 1, S)

----------------------------------------------------------------------------
(* translate_html.py: make_placeholders and restore_placeholders           *)

\* the lexemes the pattern of a kind starts at: "<!--", r"<script\b", r"<style\b"
Opener(kind) ==
    CASE kind = "COMMENT" -> {"<!--"}
      [] kind = "SCRIPT" -> {"<script>"}
      [] kind = "STYLE" -> {"<style>"}

\* the lexemes "[\s\S]*?" stops at: "-->", "</script>", "</style>"
Closer(kind) ==
    CASE kind = "COMMENT" -> {"-->"}
      [] kind = "SCRIPT" -> {"</script>"}
      [] kind = "STYLE" -> {"</style>"}

\* _store: the key is numbered by the size of the dict, and the match saved
Store(ph, kind, block) ==
    Append(ph, [key |-> Key(kind, Len(ph)), value |-> block])

\* one re.sub of make_placeholders from position i on; out is what is written
RECURSIVE SubKind(_, _, _, _, _)
SubKind(doc, i, kind, out, ph) ==
    IF i > Len(doc) THEN [html |-> out, placeholders |-> ph]
    ELSE LET j == IF doc[i] \in Opener(kind)
                  THEN FirstIn(doc, i + 1, Closer(kind))
                  ELSE Len(doc) + 1
         IN  IF j > Len(doc)
             THEN SubKind(doc, i + 1, kind, Append(out, doc[i]), ph)
             ELSE SubKind(doc, j + 1, kind, Append(out, Key(kind, Len(ph))),
                          Store(ph, kind, SubSeq(doc, i, j)))

make_placeholders(doc) ==
    LET c == SubKind(doc, 1, "COMMENT", <<>>, <<>>)
        s == SubKind(c.html, 1, "SCRIPT", <<>>, c.placeholders)
    IN  SubKind(s.html, 1, "STYLE", <<>>, s.placeholders)

\* html.replace(key, value)
RECURSIVE Replace(_, _, _)
Replace(doc, key, value) ==
    IF doc = <<>> THEN <<>>
    ELSE (IF Head(doc) = key THEN value ELSE <<Head(doc)>>)
         \o Replace(Tail(doc), key, value)

\* the loop of restore_placeholders over placeholders.items(), from entry k on
RECURSIVE RestoreFrom(_, _, _)
RestoreFrom(doc, ph, k) ==
    IF k > Len(ph) THEN doc
    ELSE RestoreFrom(Replace(doc, ph[k].key, ph[k].value), ph, k + 1)

restore_placeholders(doc, ph) == RestoreFrom(doc, ph, 1)

----------------------------------------------------------------------------
(* translate_html.py: find_text_nodes and find_attr_values                 *)

\* re.finditer(r">([^<>]+)<", doc) from position i on: each match as
\* <<l, r>>, the positions of the lexeme ending in its '>' and of the
\* lexeme starting with its '<'; group(1) is what lies between
RECURSIVE TextMatches(_, _)
TextMatches(doc, i) ==
    IF i >= Len(doc) THEN <<>>
    ELSE IF doc[i] \notin EndsGT THEN TextMatches(doc, i + 1)
    ELSE LET j == FirstIn(doc, i + 1, StartsLT \cup EndsGT)
         IN  IF j > i + 1 /\ j <= Len(doc) /\ doc[j] \in StartsLT
             THEN <<<<i, j>>>> \o TextMatches(doc, j)
             ELSE TextMatches(doc, j)

Group1(doc, m) == SubSeq(doc, m[1] + 1, m[2] - 1)

\* the three "continue" tests of find_text_nodes
Translatable(text) ==
    /\ Core(text) # <<>>
    /\ ~IsPlaceholder(text)
    /\ HasLatin(text)

RECURSIVE SelectTexts(_, _)
SelectTexts(doc, ms) ==
    IF ms = <<>> THEN <<>>
    ELSE (IF Translatable(Group1(doc, Head(ms)))
          THEN <<Group1(doc, Head(ms))>> ELSE <<>>)
         \o SelectTexts(doc, Tail(ms))

find_text_nodes(doc) == SelectTexts(doc, TextMatches(doc, 1))

VISIBLE_ATTRS == <<"alt", "title", "placeholder", "aria-label">>

\* the attribute whose name and "=" a lexeme ends with
AttrOf(x) ==
    CASE x = "<img alt=" -> "alt"
      [] x = "<a title=" -> "title"
      [] OTHER -> "none"

Quotes == {"\"", "'"}

\* "\s*": the first position >= i of doc that holds no white space
RECURSIVE SkipWs(_, _)
SkipWs(doc, i) ==
    IF i > Len(doc) \/ doc[i] \notin WhiteSpace THEN i ELSE SkipWs(doc, i + 1)

\* re.finditer(rf"{attr}\s*=\s*(\"([^\"]*)\"|'([^']*)')", doc) from position i
\* on: each match as <<o, q1, q2>>, the positions of the lexeme ending in
\* "attr=", of the opening quote and of the closing quote
RECURSIVE AttrMatches(_, _, _)
AttrMatches(doc, i, attr) ==
    IF i >= Len(doc) THEN <<>>
    ELSE IF AttrOf(doc[i]) # attr THEN AttrMatches(doc, i + 1, attr)
    ELSE LET q1 == SkipWs(doc, i + 1)
             q2 == IF q1 <= Len(doc) /\ doc[q1] \in Quotes
                   THEN FirstIn(doc, q1 + 1, {doc[q1]})
                   ELSE Len(doc) + 1
         IN  IF q2 <= Len(doc)
             THEN <<<<i, q1, q2>>>> \o AttrMatches(doc, q2 + 1, attr)
             ELSE AttrMatches(doc, i + 1, attr)

Value(doc, m) == SubSeq(doc, m[2] + 1, m[3] - 1)

\* line 74: value and not placeholder_re.fullmatch(value.strip()) and latin
RECURSIVE SelectValues(_, _)
SelectValues(doc, ms) ==
    IF ms = <<>> THEN <<>>
    ELSE LET v == Value(doc, Head(ms))
         IN  (IF v # <<>> /\ ~IsPlaceholder(v) /\ HasLatin(v)
              THEN <<v>> ELSE <<>>)
             \o SelectValues(doc, Tail(ms))

\* the values of the occurrences find_attr_values returns (main, line 187)
RECURSIVE AttrTexts(_, _)
AttrTexts(doc, k) ==
    IF k > Len(VISIBLE_ATTRS) THEN <<>>
    ELSE SelectValues(doc, AttrMatches(doc, 1, VISIBLE_ATTRS[k]))
         \o AttrTexts(doc, k + 1)

find_attr_values(doc) == AttrTexts(doc, 1)

----------------------------------------------------------------------------
(* translate_html.py: batch_translate                                      *)

\* the size of a chunk of batch_translate (40 in the source, line 91); the
\* model keeps it small so that a handful of strings spans several chunks
CHUNK == 2

\* lines 83-88: de-duplicate while preserving order
RECURSIVE Dedup(_, _)
Dedup(strings, seen) ==
    IF strings = <<>> THEN <<>>
    ELSE IF Head(strings) \in seen THEN Dedup(Tail(strings), seen)
    ELSE <<Head(strings)>> \o Dedup(Tail(strings), seen \cup {Head(strings)})

Min(a, b) == IF a < b THEN a ELSE b

\* A backend is [identity, okBatch, okItem]: translate_batch succeeds on the
\* chunks whose number is in okBatch and raises on the others, translate
\* succeeds on the strings of okItem and raises on the others.  What a call
\* returns is [exc |-> it raised, val |-> its result].
\* GoogleTranslator.translate_batch(chunk): one result per item, in order
translate_batch(be, c, chunk) ==
    IF c \in be.okBatch
    THEN [exc |-> FALSE,
          val |-> [k \in 1..Len(chunk) |->
                     IF be.identity THEN chunk[k] ELSE <<"tb">> \o chunk[k]]]
    ELSE [exc |-> TRUE, val |-> <<>>]

\* GoogleTranslator.translate(s)
translate(be, s) ==
    IF s \in be.okItem
    THEN [exc |-> FALSE, val |-> IF be.identity THEN s ELSE <<"ts">> \o s]
    ELSE [exc |-> TRUE, val |-> <<>>]

\* the per-item fallback without its except clause: what translate raises
\* goes up
FallbackItemRaises(be, s) == translate(be, s)

\* lines 100-103: try translate(s), except: the string itself
FallbackItem(be, s) ==
    LET t == translate(be, s)
    IN  IF t.exc THEN [exc |-> FALSE, val |-> s] ELSE t

\* lines 94-103: try translate_batch(chunk), except: item by item
ChunkTranslations(be, c, chunk) ==
    LET b == translate_batch(be, c, chunk)
    IN  IF ~b.exc THEN b
        ELSE LET items == [k \in 1..Len(chunk) |-> FallbackItem(be, chunk[k])]
             IN  [exc |-> \E k \in 1..Len(chunk) : items[k].exc,
                  val |-> [k \in 1..Len(chunk) |-> items[k].val]]

\* lines 104-105: for original, translated in zip(chunk, translations)
RECURSIVE Zip(_, _, _, _)
Zip(m, chunk, translations, k) ==
    IF k > Min(Len(chunk), Len(translations)) THEN m
    ELSE Zip([s \in DOMAIN m \cup {chunk[k]} |->
                 IF s = chunk[k] THEN translations[k] ELSE m[s]],
             chunk, translations, k + 1)

\* the loop of lines 92-105 from chunk number c on; an exception that
\* leaves a chunk's try blocks ends the call
RECURSIVE Chunks(_, _, _, _)
Chunks(be, uniq, c, m) ==
    IF (c - 1) * CHUNK >= Len(uniq) THEN [exc |-> FALSE, mapping |-> m]
    ELSE LET chunk == SubSeq(uniq, (c - 1) * CHUNK + 1, Min(c * CHUNK, Len(uniq)))
             t == ChunkTranslations(be, c, chunk)
         IN  IF t.exc THEN [exc |-> TRUE, mapping |-> m]
             ELSE Chunks(be, uniq, c + 1, Zip(m, chunk, t.val, 1))

batch_translate(strings, be) == Chunks(be, Dedup(strings, {}), 1, <<>>)

----------------------------------------------------------------------------
(* translate_html.py: replace_between_tags, replace_attr_values,           *)
(* switch_lang_attr                                                        *)

\* lines 118-121 and 144-146: mapping.get(original), else mapping.get(core, core)
Lookup(m, original) ==
    IF original \in DOMAIN m THEN m[original]
    ELSE IF Core(original) \in DOMAIN m THEN m[Core(original)]
    ELSE Core(original)

\* repl of replace_between_tags, on group(1)
ReplText(original, m) ==
    IF Core(original) = <<>> THEN original
    ELSE leading_ws(original) \o Lookup(m, original) \o trailing_ws(original)

\* re.sub(r">([^<>]+)<", repl, html): the matches ms rewritten, the rest
\* copied from position pos on
RECURSIVE SubTexts(_, _, _, _)
SubTexts(doc, ms, pos, m) ==
    IF ms = <<>> THEN SubSeq(doc, pos, Len(doc))
    ELSE SubSeq(doc, pos, Head(ms)[1])
         \o ReplText(Group1(doc, Head(ms)), m)
         \o SubTexts(doc, Tail(ms), Head(ms)[2], m)

replace_between_tags(doc, m) == SubTexts(doc, TextMatches(doc, 1), 1, m)

\* _repl of replace_attr_values, on the value between the quotes
ReplValue(val, m) ==
    IF val = <<>> THEN val
    ELSE leading_ws(val) \o Lookup(m, val) \o trailing_ws(val)

\* re.sub(pattern, _repl, html) for one attribute: prefix and quotes are
\* written back as they were
RECURSIVE SubValues(_, _, _, _)
SubValues(doc, ms, pos, m) ==
    IF ms = <<>> THEN SubSeq(doc, pos, Len(doc))
    ELSE SubSeq(doc, pos, Head(ms)[2])
         \o ReplValue(Value(doc, Head(ms)), m)
         \o SubValues(doc, Tail(ms), Head(ms)[3], m)

\* lines 153-154: for attr in VISIBLE_ATTRS, from attribute k on
RECURSIVE ReplaceAttrs(_, _, _)
ReplaceAttrs(doc, m, k) ==
    IF k > Len(VISIBLE_ATTRS) THEN doc
    ELSE ReplaceAttrs(SubValues(doc, AttrMatches(doc, 1, VISIBLE_ATTRS[k]), 1, m),
                      m, k + 1)

replace_attr_values(doc, m) == ReplaceAttrs(doc, m, 1)

\* r"<html\b": the lexemes a match of switch_lang_attr starts in
HtmlStart == {"<html lang=", "<html"}

\* r"\blang\s*=": the lexemes ending in it
LangEq == {"<html lang=", "<p lang=", " lang="}

\* r"it(?:-[A-Za-z]+)?"
ItValue == {"it", "it-IT"}

\* whether r"\blang\s*=\s*" q value q matches with "lang=" ending lexeme j,
\* the value being one of V: 0, or the position of the closing quote
LangTail(doc, j, q, V) ==
    LET o == SkipWs(doc, j + 1)
    IN  IF /\ doc[j] \in LangEq
           /\ o + 2 <= Len(doc)
           /\ doc[o] = q /\ doc[o + 1] \in V /\ doc[o + 2] = q
        THEN o + 2 ELSE 0

\* "[^>]*" is greedy: of the places j in i..last where the tail matches,
\* the last one; 0 when there is none
RECURSIVE LastLang(_, _, _, _, _)
LastLang(doc, i, j, q, V) ==
    IF j < i THEN 0
    ELSE IF LangTail(doc, j, q, V) # 0 THEN j ELSE LastLang(doc, i, j - 1, q, V)

\* one re.sub on r"(<html[^>]*\blang\s*=\s*)" q value q from position i on,
\* the quoted value replaced by repl
RECURSIVE SubLang(_, _, _, _, _)
SubLang(doc, i, q, V, repl) ==
    IF i > Len(doc) THEN <<>>
    ELSE IF doc[i] \notin HtmlStart THEN <<doc[i]>> \o SubLang(doc, i + 1, q, V, repl)
    ELSE LET gt == FirstIn(doc, i, EndsGT)
             j == LastLang(doc, i, gt - 1, q, V)
         IN  IF j = 0 THEN <<doc[i]>> \o SubLang(doc, i + 1, q, V, repl)
             ELSE LET e == LangTail(doc, j, q, V)
                  IN  SubSeq(doc, i, e - 3) \o repl \o SubLang(doc, e + 1, q, V, repl)

\* the replacement templates of lines 160 and 161 as re expands them: in
\* r"\1\"th\"" the escape \" is no escape of re, so the backslash stays
LangRepl(q) ==
    IF q = "\"" THEN <<"\\", "\"", "th", "\\", "\"">> ELSE <<"'", "th", "'">>

switch_lang_attr(doc) ==
    SubLang(SubLang(doc, 1, "\"", ItValue, LangRepl("\"")), 1, "'", ItValue, LangRepl("'"))

----------------------------------------------------------------------------
(* Input documents                                                         *)

\* the documents made of at most n pieces of P, a piece being a sequence of
\* lexemes
RECURSIVE DocsOf(_, _)
DocsOf(P, n) ==
    IF n = 0 THEN {<<>>}
    ELSE LET D == DocsOf(P, n - 1) IN D \cup {d \o p : d \in D, p \in P}

\* <tag lang=q v q>
LangTag(open, q, v) == <<open, q, v, q, ">">>

MaxBlockPieces == 4

BlockPieces ==
    {<<x>> : x \in {"<!--", "-->", "<script>", "</script>", "<style>", "</style>",
                    "<p>", "a", " ", "\""}}
        \cup {<<"<!--", "-->">>, <<"<img alt=", "\"">>}

MaxTextPieces == 5

TextPieces ==
    {<<x>> : x \in {"<p>", "a", " ", "1", "\"", ">"}}
        \cup {<<"<img alt=", "\"">>, <<"<a title=", "'", "a", "'">>,
              LangTag("<html lang=", "\"", "it")}

MaxLangPieces == 3

LangPieces ==
    {LangTag("<html lang=", q, v) : q \in Quotes, v \in {"it", "it-IT", "en"}}
        \cup {LangTag("<p lang=", q, "it") : q \in Quotes}
        \cup {<<"a">>, <<"<html", " lang=", "\"", "it", "\"", ">">>,
              <<"<html lang=", "\"", "en", "\"">>}

----------------------------------------------------------------------------
(* translate_html.py: the steps of main                                    *)

in_path == "index.html"

\* line 177
backup_path == in_path \o ".bak.it.html"

Paths == {in_path, backup_path, "out.html"}

\* open(p, "w").write(c)
Write(f, p, c) == [q \in DOMAIN f \cup {p} |-> IF q = p THEN c ELSE f[q]]

Range(seq) == {seq[k] : k \in 1..Len(seq)}

\* the ways a backend can behave on the strings of one call: whether it
\* returns its input, which chunks translate_batch fails on, which strings
\* translate fails on
Backends(identity, strings) ==
    [identity : identity,
     okBatch : SUBSET (1..((Len(strings) + CHUNK - 1) \div CHUNK)),
     okItem : SUBSET Range(strings)]

NoBackend == [identity |-> TRUE, okBatch |-> {}, okItem |-> {}]

HtmlIdle ==
    /\ html = <<>>
    /\ protected_html = <<>>
    /\ placeholders = <<>>
    /\ all_texts = <<>>
    /\ backend = NoBackend
    /\ mapping = <<>>
    /\ translated = <<>>

RuIdle ==
    /\ ru_input = <<>>
    /\ content = <<>>
    /\ styles = <<>>
    /\ scripts = <<>>
    /\ tr = FALSE
    /\ cache = <<>>
    /\ pending = <<>>
    /\ sent = <<>>
    /\ before = <<>>
    /\ queued = <<>>
    /\ answers = <<>>

FsIdle ==
    /\ fs = <<>>
    /\ out_path = in_path
    /\ runs = 0
    /\ firstInput = <<>>
    /\ fsBefore = <<>>
    /\ backupWrites = 0
    /\ aliased = FALSE

\* lines 166-174: a run starts; it ends at once when the input is missing
StartRun(maxRuns) ==
    /\ pc = "idle"
    /\ runs < maxRuns
    /\ runs' = runs + 1
    /\ \E o \in Paths : out_path' = o /\ aliased' = (aliased \/ o = backup_path)
    /\ fsBefore' = fs
    /\ IF in_path \in DOMAIN fs
       THEN /\ pc' = "opened"
            /\ html' = fs[in_path]
            /\ firstInput' = IF runs = 0 THEN fs[in_path] ELSE firstInput
       ELSE /\ pc' = "exit1"
            /\ UNCHANGED <<html, firstInput>>
    /\ protected_html' = <<>>
    /\ placeholders' = <<>>
    /\ all_texts' = <<>>
    /\ backend' = NoBackend
    /\ mapping' = <<>>
    /\ translated' = <<>>
    /\ UNCHANGED <<fs, backupWrites, varsRu>>

\* the backup step without its os.path.exists test: every run writes it
BackupAlways ==
    /\ pc = "opened"
    /\ pc' = "read"
    /\ fs' = Write(fs, backup_path, html)
    /\ backupWrites' = backupWrites + 1
    /\ UNCHANGED <<varsHtml, out_path, runs, firstInput, fsBefore, aliased, varsRu>>

\* lines 177-180: the backup is written unless it exists
Backup ==
    /\ pc = "opened"
    /\ pc' = "read"
    /\ IF backup_path \in DOMAIN fs
       THEN UNCHANGED <<fs, backupWrites>>
       ELSE /\ fs' = Write(fs, backup_path, html)
            /\ backupWrites' = backupWrites + 1
    /\ UNCHANGED <<varsHtml, out_path, runs, firstInput, fsBefore, aliased, varsRu>>

\* line 182
Protect ==
    /\ pc = "read"
    /\ pc' = "protected"
    /\ protected_html' = make_placeholders(html).html
    /\ placeholders' = make_placeholders(html).placeholders
    /\ UNCHANGED <<html, all_texts, backend, mapping, translated, varsFs, varsRu>>

\* restore_placeholders on what make_placeholders returned, nothing between
RestoreDirect ==
    /\ pc = "protected"
    /\ pc' = "restored"
    /\ translated' = restore_placeholders(protected_html, placeholders)
    /\ UNCHANGED <<html, protected_html, placeholders, all_texts, backend, mapping, varsFs, varsRu>>

\* lines 185-189
Gather ==
    /\ pc = "protected"
    /\ pc' = "gathered"
    /\ all_texts' = find_text_nodes(protected_html) \o find_attr_values(protected_html)
    /\ UNCHANGED <<html, protected_html, placeholders, backend, mapping, translated, varsFs, varsRu>>

\* lines 190-192: sys.exit(0)
NoText ==
    /\ pc = "gathered"
    /\ all_texts = <<>>
    /\ pc' = "exit0"
    /\ UNCHANGED <<varsHtml, varsFs, varsRu>>

\* a call batch_translate(all_texts), the backend behaving in one of the
\* ways of I (whether it returns its input) on the strings given
BatchTranslateCall(I) ==
    /\ pc = "gathered"
    /\ \E be \in Backends(I, all_texts) :
          /\ backend' = be
          /\ mapping' = batch_translate(all_texts, be).mapping
          /\ pc' = IF batch_translate(all_texts, be).exc THEN "raised" ELSE "mapped"
    /\ UNCHANGED <<html, protected_html, placeholders, all_texts, translated, varsFs, varsRu>>

\* line 195
Translate(I) ==
    /\ all_texts # <<>>
    /\ BatchTranslateCall(I)

\* line 198
ReplaceTexts ==
    /\ pc = "mapped"
    /\ pc' = "texts"
    /\ translated' = replace_between_tags(protected_html, mapping)
    /\ UNCHANGED <<html, protected_html, placeholders, all_texts, backend, mapping, varsFs, varsRu>>

\* line 199
ReplaceAttrValues ==
    /\ pc = "texts"
    /\ pc' = "attrs"
    /\ translated' = replace_attr_values(translated, mapping)
    /\ UNCHANGED <<html, protected_html, placeholders, all_texts, backend, mapping, varsFs, varsRu>>

\* line 200
SwitchLang ==
    /\ pc = "attrs"
    /\ pc' = "lang"
    /\ translated' = switch_lang_attr(translated)
    /\ UNCHANGED <<html, protected_html, placeholders, all_texts, backend, mapping, varsFs, varsRu>>

\* line 203
Restore ==
    /\ pc = "lang"
    /\ pc' = "done"
    /\ translated' = restore_placeholders(translated, placeholders)
    /\ UNCHANGED <<html, protected_html, placeholders, all_texts, backend, mapping, varsFs, varsRu>>

\* lines 205-206
WriteOut ==
    /\ pc = "done"
    /\ pc' = "written"
    /\ fs' = Write(fs, out_path, translated)
    /\ backupWrites' = IF out_path = backup_path THEN backupWrites + 1 ELSE backupWrites
    /\ UNCHANGED <<varsHtml, out_path, runs, firstInput, fsBefore, aliased, varsRu>>

\* the process ends: sys.exit(1), sys.exit(0), or the return of main
EndRun ==
    /\ pc \in {"exit1", "exit0", "written"}
    /\ pc' = "idle"
    /\ UNCHANGED <<varsHtml, varsFs, varsRu>>

\* switch_lang_attr on a document
SwitchLangOnly ==
    /\ pc = "read"
    /\ pc' = "switched"
    /\ translated' = switch_lang_attr(html)
    /\ UNCHANGED <<html, protected_html, placeholders, all_texts, backend, mapping, varsFs, varsRu>>

\* a document that was read, no run of main around it
InitHtml(docs) ==
    /\ pc = "read"
    /\ html \in docs
    /\ protected_html = <<>>
    /\ placeholders = <<>>
    /\ all_texts = <<>>
    /\ backend = NoBackend
    /\ mapping = <<>>
    /\ translated = <<>>
    /\ FsIdle
    /\ RuIdle

\* protection, extraction and restoration, on documents with blocks
InitProtect == InitHtml(DocsOf(BlockPieces, MaxBlockPieces))

NextProtect == Protect \/ RestoreDirect \/ Gather

SpecProtect == InitProtect /\ [][NextProtect]_vars

\* the pipeline of main with a backend that returns its input
InitPipeline == InitHtml(DocsOf(TextPieces, MaxTextPieces))

NextPipeline ==
    \/ Protect
    \/ Gather
    \/ NoText
    \/ Translate({TRUE})
    \/ ReplaceTexts
    \/ ReplaceAttrValues
    \/ SwitchLang
    \/ Restore

SpecPipeline == InitPipeline /\ [][NextPipeline]_vars

\* switch_lang_attr alone, on documents with lang attributes
InitLang == InitHtml(DocsOf(LangPieces, MaxLangPieces))

NextLang == SwitchLangOnly

SpecLang == InitLang /\ [][NextLang]_vars

\* batch_translate alone, on lists of strings, with every backend
MaxStrings == 4

BatchStrings == {<<"a">>, <<"b">>, <<" ", "a">>, <<"a", " ">>}

InitBatch ==
    /\ pc = "gathered"
    /\ all_texts \in DocsOf({<<x>> : x \in BatchStrings}, MaxStrings)
    /\ html = <<>>
    /\ protected_html = <<>>
    /\ placeholders = <<>>
    /\ backend = NoBackend
    /\ mapping = <<>>
    /\ translated = <<>>
    /\ FsIdle
    /\ RuIdle

NextBatch == BatchTranslateCall({TRUE, FALSE})

SpecBatch == InitBatch /\ [][NextBatch]_vars

\* runs of main, one after the other, on the same input path
MaxRuns == 2

MaxMainPieces == 4

MainPieces == {<<"<p>">>, <<"a">>, <<" ">>, <<"1">>}

InitMain ==
    /\ pc = "idle"
    /\ HtmlIdle
    /\ \E doc \in DocsOf(MainPieces, MaxMainPieces) : fs = Write(<<>>, in_path, doc)
    /\ out_path = in_path
    /\ runs = 0
    /\ firstInput = <<>>
    /\ fsBefore = <<>>
    /\ backupWrites = 0
    /\ aliased = FALSE
    /\ RuIdle

NextMain ==
    \/ StartRun(MaxRuns)
    \/ Backup
    \/ Protect
    \/ Gather
    \/ NoText
    \/ Translate({TRUE, FALSE})
    \/ ReplaceTexts
    \/ ReplaceAttrValues
    \/ SwitchLang
    \/ Restore
    \/ WriteOut
    \/ EndRun

SpecMain == InitMain /\ [][NextMain]_vars

----------------------------------------------------------------------------
(* Claims on translate_html.py                                             *)

HasKey(doc) == \E k \in 1..Len(doc) : doc[k] \in PlaceholderKeys

\* C1: restore_placeholders applied to what make_placeholders returned gives
\* back the document, and no key of make_placeholders is left in it.
C1_RestoreOfProtect ==
    pc = "restored" => translated = html /\ ~HasKey(translated)

\* C4: no string that find_text_nodes or find_attr_values returns for a
\* protected document holds a protection key.
C4_NoKeyInTexts ==
    pc = "gathered" => \A k \in 1..Len(all_texts) : ~HasKey(all_texts[k])

\* C2: with a backend that returns every string unchanged, the output of the
\* pipeline is the input except for the value of the lang attribute.
C2_IdentityRoundTrip ==
    pc = "done" =>
        /\ Len(translated) = Len(html)
        /\ \A k \in 1..Len(html) :
              translated[k] # html[k] => html[k] \in ItValue /\ translated[k] = "th"

\* whether position k of doc lies in an <html ...> opening tag
InHtmlTag(doc, k) ==
    \E i \in 1..k : doc[i] \in HtmlStart /\ FirstIn(doc, i, EndsGT) > k

\* the quoted values of the lang attributes outside an <html> opening tag
RECURSIVE OutsideLangs(_, _)
OutsideLangs(doc, k) ==
    IF k > Len(doc) THEN <<>>
    ELSE (IF doc[k] = "<p lang=" /\ ~InHtmlTag(doc, k)
          THEN <<SubSeq(doc, k + 1, Min(k + 3, Len(doc)))>> ELSE <<>>)
         \o OutsideLangs(doc, k + 1)

\* C7: switch_lang_attr turns <html lang="it-IT"> and <html lang="it"> into
\* exactly <html lang="th">, <html lang='it'> into <html lang='th'>, and
\* leaves the lang attributes outside the <html> opening tag as they were.
C7_SwitchLangExact ==
    pc = "switched" =>
        /\ \A q \in Quotes, v \in ItValue :
              (Len(html) >= 5 /\ SubSeq(html, 1, 5) = LangTag("<html lang=", q, v))
                  => (Len(translated) >= 5
                      /\ SubSeq(translated, 1, 5) = LangTag("<html lang=", q, "th"))
        /\ OutsideLangs(translated, 1) = OutsideLangs(html, 1)

\* the number of the chunk of batch_translate a string falls in: strings are
\* chunked in the order of their first occurrence
FirstPos(strings, s) == CHOOSE k \in 1..Len(strings) :
    strings[k] = s /\ \A j \in 1..(k - 1) : strings[j] # s

ChunkNo(strings, s) ==
    (Cardinality({t \in Range(strings) : FirstPos(strings, t) <= FirstPos(strings, s)})
        - 1) \div CHUNK + 1

\* what the claim says a string maps to
C6_Entry(s) ==
    IF ChunkNo(all_texts, s) \in backend.okBatch
    THEN (IF backend.identity THEN s ELSE <<"tb">> \o s)
    ELSE IF s \in backend.okItem
    THEN (IF backend.identity THEN s ELSE <<"ts">> \o s)
    ELSE s

\* C6: batch_translate does not raise, whatever the backend does, and maps
\* every distinct input string: to translate_batch's result when its chunk's
\* call succeeds, else to translate's result when that succeeds, else to
\* the string itself.
C6_BatchFallback ==
    /\ pc # "raised"
    /\ pc = "mapped" =>
          /\ DOMAIN mapping = Range(all_texts)
          /\ \A s \in Range(all_texts) : mapping[s] = C6_Entry(s)

\* a call in which one chunk succeeded as a batch and another fell back, one
\* of its items translated alone and another kept
C6_Witness ==
    /\ pc = "mapped"
    /\ ~backend.identity
    /\ \E s, t, u \in Range(all_texts) :
          /\ ChunkNo(all_texts, s) \in backend.okBatch
          /\ ChunkNo(all_texts, t) \notin backend.okBatch
          /\ ChunkNo(all_texts, u) = ChunkNo(all_texts, t)
          /\ t \in backend.okItem /\ u \notin backend.okItem
          /\ mapping[s] = <<"tb">> \o s
          /\ mapping[t] = <<"ts">> \o t
          /\ mapping[u] = u

\* the claim of C9, as it stands
C9_Holds ==
    /\ backupWrites <= 1
    /\ (runs >= 1 /\ pc \notin {"opened", "exit1"}) =>
          (backup_path \in DOMAIN fs /\ fs[backup_path] = firstInput)

\* C9 (as claimed): over any runs of main on the same input path the backup
\* is written at most once; from the first run's backup step on it exists
\* and holds what the input held when that run started, so no later step
\* changes it and it exists before any output is written.
C9_BackupWriteOnce == C9_Holds

\* C9 (amended): as C9, provided no run was given the backup path itself as
\* its output path.
C9_BackupWriteOnceUnlessAliased == ~aliased => C9_Holds

\* a second run that wrote its output over the input, the backup still
\* holding the first input
C9_Witness ==
    /\ runs = 2 /\ pc = "written" /\ ~aliased
    /\ out_path = in_path
    /\ fs[in_path] # firstInput
    /\ fs[backup_path] = firstInput

\* C10: when the document has no translatable text, main exits with status 0
\* having called no backend and changed no file.
C10_NoTextNoChange ==
    pc = "exit0" => backend = NoBackend /\ fs = fsBefore

----------------------------------------------------------------------------
(* translate_html_ru.py                                                    *)

\* has_latin; LATIN_RE is the character class of translate_html.py
has_latin(text) == HasLatin(text)

\* a word in Cyrillic letters, as a translator to Russian returns it
RuWord == "(ru)"

\* has_cyrillic
has_cyrillic(text) == \E k \in 1..Len(text) : text[k] = RuWord

\* line 82: the lexemes holding "http://", "https://", "www.", "@", "{" or "}"
SkipLexemes == RuKeys \cup {"@", "{"}

\* tag.upper()
Upper(tag) == IF tag = "style" THEN "STYLE" ELSE "SCRIPT"

\* protect_blocks: pattern.sub(repl, content) from position i on; the
\* pattern is (<tag[^>]*>)([\s\S]*?)(</tag>)
RECURSIVE SubBlocks(_, _, _, _, _)
SubBlocks(doc, i, tag, out, saved) ==
    IF i > Len(doc) THEN [content |-> out, saved |-> saved]
    ELSE LET j == IF doc[i] \in Opener(Upper(tag))
                  THEN FirstIn(doc, i + 1, Closer(Upper(tag)))
                  ELSE Len(doc) + 1
         IN  IF j > Len(doc)
             THEN SubBlocks(doc, i + 1, tag, Append(out, doc[i]), saved)
             ELSE SubBlocks(doc, j + 1, tag,
                            Append(out, RuKey(Upper(tag), Len(saved))),
                            Append(saved, SubSeq(doc, i, j)))

protect_blocks(doc, tag) == SubBlocks(doc, 1, tag, <<>>, <<>>)

\* restore_blocks, from block number idx (counted from 1) on
RECURSIVE RestoreBlocks(_, _, _, _)
RestoreBlocks(doc, tag, saved, idx) ==
    IF idx > Len(saved) THEN doc
    ELSE RestoreBlocks(Replace(doc, RuKey(Upper(tag), idx - 1), saved[idx]),
                       tag, saved, idx + 1)

restore_blocks(doc, tag, saved) == RestoreBlocks(doc, tag, saved, 1)

\* lines 167-168: "it" between the quotes becomes "ru"
switch_lang_ru(doc) ==
    SubLang(SubLang(doc, 1, "\"", {"it"}, <<"\"", "ru", "\"">>),
            1, "'", {"it"}, <<"'", "ru", "'">>)

\* cache[k] = v
Put(m, k, v) == [x \in DOMAIN m \cup {k} |-> IF x = k THEN v ELSE m[x]]

\* BatchTranslator.translate_preserving_ws on the translator state
\* bt = [cache, pending]: what it returns and the state it leaves
translate_preserving_ws(bt, s) ==
    IF s \in DOMAIN bt.cache THEN [ret |-> bt.cache[s], bt |-> bt]
    ELSE IF \/ Core(s) = <<>>
            \/ (has_cyrillic(Core(s)) /\ ~has_latin(Core(s)))
            \/ \E k \in 1..Len(Core(s)) : Core(s)[k] \in SkipLexemes
    THEN [ret |-> s, bt |-> [bt EXCEPT !.cache = Put(bt.cache, s, s)]]
    ELSE LET placeholder == <<RuKey("T", Len(bt.pending))>>
         IN  [ret |-> placeholder,
              bt |-> [cache |-> Put(bt.cache, s, placeholder),
                      pending |-> Append(bt.pending,
                                         [placeholder |-> placeholder,
                                          prefix |-> leading_ws(s),
                                          stripped |-> Core(s),
                                          suffix |-> trailing_ws(s),
                                          original |-> s])]]

\* translate_html_ru.py, line 114
attrs == <<"alt", "title", "placeholder", "aria-label", "aria-placeholder", "data-title">>

\* the matches of (attr\s*=\s*q)(.*?)(q) from position i on, as AttrMatches
RECURSIVE AttrMatchesQ(_, _, _, _)
AttrMatchesQ(doc, i, attr, q) ==
    IF i >= Len(doc) THEN <<>>
    ELSE IF AttrOf(doc[i]) # attr THEN AttrMatchesQ(doc, i + 1, attr, q)
    ELSE LET q1 == SkipWs(doc, i + 1)
             q2 == IF q1 <= Len(doc) /\ doc[q1] = q
                   THEN FirstIn(doc, q1 + 1, {q})
                   ELSE Len(doc) + 1
         IN  IF q2 <= Len(doc)
             THEN <<<<i, q1, q2>>>> \o AttrMatchesQ(doc, q2 + 1, attr, q)
             ELSE AttrMatchesQ(doc, i + 1, attr, q)

\* pattern_dq.sub(repl_dq, content) and pattern_sq.sub(repl_sq, content) of
\* translate_attributes: the matches ms rewritten in order, the translator
\* state carried from one to the next
RECURSIVE SubAttrs(_, _, _, _)
SubAttrs(doc, ms, pos, bt) ==
    IF ms = <<>> THEN [content |-> SubSeq(doc, pos, Len(doc)), bt |-> bt]
    ELSE IF ~has_latin(Value(doc, Head(ms)))
    THEN SubAttrs(doc, Tail(ms), pos, bt)
    ELSE LET t == translate_preserving_ws(bt, Value(doc, Head(ms)))
             rest == SubAttrs(doc, Tail(ms), Head(ms)[3], t.bt)
         IN  [content |-> SubSeq(doc, pos, Head(ms)[2]) \o t.ret \o rest.content,
              bt |-> rest.bt]

\* lines 116-133: for attr in attrs, double quotes first, from attribute k on
RECURSIVE AttrLoop(_, _, _)
AttrLoop(doc, bt, k) ==
    IF k > Len(attrs) THEN [content |-> doc, bt |-> bt]
    ELSE LET dq == SubAttrs(doc, AttrMatchesQ(doc, 1, attrs[k], "\""), 1, bt)
             sq == SubAttrs(dq.content, AttrMatchesQ(dq.content, 1, attrs[k], "'"),
                            1, dq.bt)
         IN  AttrLoop(sq.content, sq.bt, k + 1)

\* lines 140-149: pattern.sub(repl, content) of translate_textnodes
RECURSIVE SubNodes(_, _, _, _)
SubNodes(doc, ms, pos, bt) ==
    IF ms = <<>> THEN [content |-> SubSeq(doc, pos, Len(doc)), bt |-> bt]
    ELSE IF ~has_latin(Group1(doc, Head(ms)))
    THEN SubNodes(doc, Tail(ms), pos, bt)
    ELSE LET t == translate_preserving_ws(bt, Group1(doc, Head(ms)))
             rest == SubNodes(doc, Tail(ms), Head(ms)[2], t.bt)
         IN  [content |-> SubSeq(doc, pos, Head(ms)[1]) \o t.ret \o rest.content,
              bt |-> rest.bt]

\* the size of a chunk of process_batches (line 98)
chunk_size == 80

\* BatchTranslator._translate_list(items).  ans[k] says what the backend did
\* with item k: "tr" (it returned a translation), "key" (it returned a text
\* that reads like the placeholder of the next pending item), "same" (it
\* returned the item, or both translate_batch and translate raised, or
\* self.tr is None)
TranslateList(items, ans, first) ==
    [k \in 1..Len(items) |->
        CASE ans[first + k - 1] = "tr" -> <<RuWord>>
          [] ans[first + k - 1] = "key" -> <<RuKey("T", first + k - 1)>>
          [] OTHER -> items[k]]

\* lines 99-101: the chunks translated one after the other, from item i on
RECURSIVE TranslatedAll(_, _, _)
TranslatedAll(batch_texts, ans, i) ==
    IF i > Len(batch_texts) THEN <<>>
    ELSE TranslateList(SubSeq(batch_texts, i, Min(i + chunk_size - 1, Len(batch_texts))),
                       ans, i)
         \o TranslatedAll(batch_texts, ans, i + chunk_size)

\* lines 103-107: the placeholders replaced, the cache updated, from item k on
RECURSIVE ReplacePending(_, _, _, _, _)
ReplacePending(doc, c, pend, translated_all, k) ==
    IF k > Min(Len(pend), Len(translated_all)) THEN [content |-> doc, cache |-> c]
    ELSE LET result == pend[k].prefix \o translated_all[k] \o pend[k].suffix
         IN  ReplacePending(Replace(doc, pend[k].placeholder[1], result),
                            Put(c, pend[k].original, result),
                            pend, translated_all, k + 1)

\* BatchTranslator.process_batches
process_batches(bt, doc, ans) ==
    IF bt.pending = <<>> THEN [content |-> doc, bt |-> bt]
    ELSE LET batch_texts == [k \in 1..Len(bt.pending) |-> bt.pending[k].stripped]
             r == ReplacePending(doc, bt.cache, bt.pending,
                                 TranslatedAll(batch_texts, ans, 1), 1)
         IN  [content |-> r.content, bt |-> [cache |-> r.cache, pending |-> <<>>]]

\* what the backend may answer for n items: anything when there is a
\* translator, the items themselves when self.tr is None (line 57)
Answers(n) ==
    IF tr THEN [1..n -> {"tr", "key", "same"}] ELSE [1..n -> {"same"}]

\* lines 164-168
SwitchLangRu ==
    /\ pc = "ru_read"
    /\ pc' = "ru_lang"
    /\ content' = switch_lang_ru(content)
    /\ UNCHANGED <<ru_input, styles, scripts, tr, cache, pending, sent, before, queued,
                   answers, varsHtml, varsFs>>

\* line 171
ProtectStyles ==
    /\ pc = "ru_lang"
    /\ pc' = "ru_styles"
    /\ content' = protect_blocks(content, "style").content
    /\ styles' = protect_blocks(content, "style").saved
    /\ UNCHANGED <<ru_input, scripts, tr, cache, pending, sent, before, queued, answers,
                   varsHtml, varsFs>>

\* line 172
ProtectScripts ==
    /\ pc = "ru_styles"
    /\ pc' = "ru_scripts"
    /\ content' = protect_blocks(content, "script").content
    /\ scripts' = protect_blocks(content, "script").saved
    /\ UNCHANGED <<ru_input, styles, tr, cache, pending, sent, before, queued, answers,
                   varsHtml, varsFs>>

\* translate_attributes, lines 114-133: the substitutions
AttributesSub ==
    /\ pc = "ru_scripts"
    /\ pc' = "ru_attrs_sub"
    /\ LET r == AttrLoop(content, [cache |-> cache, pending |-> pending], 1)
       IN  /\ content' = r.content
           /\ cache' = r.bt.cache
           /\ pending' = r.bt.pending
    /\ UNCHANGED <<ru_input, styles, scripts, tr, sent, before, queued, answers,
                   varsHtml, varsFs>>

\* process_batches on the state bt and the document: the pending items go
\* to the backend (translate_batch is tried first when there is a
\* translator), which answers ans
ProcessBatches(ans) ==
    LET r == process_batches([cache |-> cache, pending |-> pending], content, ans)
    IN  /\ content' = r.content
        /\ cache' = r.bt.cache
        /\ pending' = r.bt.pending
        /\ sent' = IF tr THEN sent \o [k \in 1..Len(pending) |-> pending[k].stripped]
                   ELSE sent

\* translate_attributes, line 135
AttributesBatches ==
    /\ pc = "ru_attrs_sub"
    /\ pc' = "ru_attrs"
    /\ \E ans \in Answers(Len(pending)) : ProcessBatches(ans)
    /\ UNCHANGED <<ru_input, styles, scripts, tr, before, queued, answers, varsHtml, varsFs>>

\* translate_textnodes, lines 140-149: the substitution
TextnodesSub ==
    /\ pc = "ru_attrs"
    /\ pc' = "ru_nodes_sub"
    /\ before' = content
    /\ LET r == SubNodes(content, TextMatches(content, 1), 1,
                         [cache |-> cache, pending |-> pending])
       IN  /\ content' = r.content
           /\ cache' = r.bt.cache
           /\ pending' = r.bt.pending
           /\ queued' = r.bt.pending
    /\ UNCHANGED <<ru_input, styles, scripts, tr, sent, answers, varsHtml, varsFs>>

\* translate_textnodes, line 150
TextnodesBatches ==
    /\ pc = "ru_nodes_sub"
    /\ pc' = "ru_nodes"
    /\ \E ans \in Answers(Len(pending)) : answers' = ans /\ ProcessBatches(ans)
    /\ UNCHANGED <<ru_input, styles, scripts, tr, before, queued, varsHtml, varsFs>>

\* line 183
RestoreScripts ==
    /\ pc = "ru_nodes"
    /\ pc' = "ru_restored_scripts"
    /\ content' = restore_blocks(content, "script", scripts)
    /\ UNCHANGED <<ru_input, styles, scripts, tr, cache, pending, sent, before, queued,
                   answers, varsHtml, varsFs>>

\* lines 184-187: the document as it is written
RestoreStyles ==
    /\ pc = "ru_restored_scripts"
    /\ pc' = "ru_done"
    /\ content' = restore_blocks(content, "style", styles)
    /\ UNCHANGED <<ru_input, styles, scripts, tr, cache, pending, sent, before, queued,
                   answers, varsHtml, varsFs>>

MaxRuBlockPieces == 3

RuBlockPieces ==
    {<<x>> : x \in {"<script>", "</script>", "<style>", "</style>", "<p>", "a"}}
        \cup {<<"<!--", "<p>", "a", "<p>", "-->">>,
              <<"<!--", "1", "-->">>,
              LangTag("<html lang=", "\"", "it"),
              <<"<img alt=", "\"", "a", "\"", ">">>}

MaxRuTextPieces == 5

RuTextPieces ==
    {<<x>> : x \in {"<p>", "a", "b", " "}}
        \cup {<<"<img alt=", "\"", "a", " ", "\"", ">">>,
              <<"<a title=", "'", "a", "'", ">">>}

\* a run of main of translate_html_ru.py on a document that was read
InitRu ==
    /\ pc = "ru_read"
    /\ ru_input \in DocsOf(RuBlockPieces, MaxRuBlockPieces)
                      \cup DocsOf(RuTextPieces, MaxRuTextPieces)
    /\ content = ru_input
    /\ styles = <<>>
    /\ scripts = <<>>
    /\ tr \in BOOLEAN
    /\ cache = <<>>
    /\ pending = <<>>
    /\ sent = <<>>
    /\ before = <<>>
    /\ queued = <<>>
    /\ answers = <<>>
    /\ HtmlIdle
    /\ FsIdle

NextRu ==
    \/ SwitchLangRu
    \/ ProtectStyles
    \/ ProtectScripts
    \/ AttributesSub
    \/ AttributesBatches
    \/ TextnodesSub
    \/ TextnodesBatches
    \/ RestoreScripts
    \/ RestoreStyles

SpecRu == InitRu /\ [][NextRu]_vars

----------------------------------------------------------------------------
(* Claims on translate_html_ru.py                                          *)

\* the blocks of a document that start with a lexeme of O and end with the
\* next lexeme of C, in order
RECURSIVE Blocks(_, _, _, _)
Blocks(doc, i, O, C) ==
    IF i > Len(doc) THEN <<>>
    ELSE LET j == IF doc[i] \in O THEN FirstIn(doc, i + 1, C) ELSE Len(doc) + 1
         IN  IF j > Len(doc) THEN Blocks(doc, i + 1, O, C)
             ELSE <<SubSeq(doc, i, j)>> \o Blocks(doc, j + 1, O, C)

\* C3: the <script> blocks, the <style> blocks and the comments of the
\* document main writes are those of the document it read, whatever they
\* hold and whatever the backend answers.
C3_BlocksUntouched ==
    pc = "ru_done" =>
        /\ Blocks(content, 1, {"<script>"}, {"</script>"})
              = Blocks(ru_input, 1, {"<script>"}, {"</script>"})
        /\ Blocks(content, 1, {"<style>"}, {"</style>"})
              = Blocks(ru_input, 1, {"<style>"}, {"</style>"})
        /\ Blocks(content, 1, {"<!--"}, {"-->"}) = Blocks(ru_input, 1, {"<!--"}, {"-->"})

\* C5: over one run, no whitespace-stripped core is handed to the backend's
\* translate_batch twice.
C5_CoreSentOnce ==
    \A j, k \in 1..Len(sent) : sent[j] = sent[k] => j = k

\* the item of queued the text s was queued as; 0 when it was not queued
QueuedAs(s) ==
    IF \E k \in 1..Len(queued) : queued[k].original = s
    THEN CHOOSE k \in 1..Len(queued) : queued[k].original = s
    ELSE 0

\* C8: after process_batches, every text node translate_textnodes queued
\* reads prefix + T(core) + suffix between its '>' and its '<', T(core)
\* being what the backend answered for its core, and no placeholder that
\* was handed out is left.
C8_WhitespaceKept ==
    pc = "ru_nodes" =>
        LET mb == TextMatches(before, 1)
            ma == TextMatches(content, 1)
            ts == TranslatedAll([k \in 1..Len(queued) |-> queued[k].stripped], answers, 1)
        IN  /\ Len(ma) = Len(mb)
            /\ \A n \in 1..Len(mb) :
                  LET k == QueuedAs(Group1(before, mb[n]))
                  IN  k # 0 =>
                        Group1(content, ma[n])
                            = leading_ws(Group1(before, mb[n])) \o ts[k]
                                \o trailing_ws(Group1(before, mb[n]))
            /\ \A k \in 1..Len(queued), n \in 1..Len(content) :
                  content[n] # queued[k].placeholder[1]

====
